---- MODULE Spec2Model ----
(***************************************************************************)
(* A model of proxygen's sample HTTP client driver, CurlService::CurlClient *)
(* (proxygen/httpclient/samples/curl/CurlClient.cpp).                       *)
(*                                                                          *)
(* The driver runs on one event-loop thread: every transport callback is    *)
(* one atomic action.  A callback that the transport delivers from inside   *)
(* a send call of the driver (onEgressPaused during sendHeaders or          *)
(* sendBody) is part of the action of the handler that made the call.       *)
(***************************************************************************)
EXTENDS Integers, Sequences, FiniteSets, TLC

VARIABLES
  headersString,     \* the header specification given to parseHeaders
  parsed,            \* what parseHeaders returned: <<>> before, <<headers>> after
  headers,           \* the headers given to the constructor
  httpMethod_,       \* CurlClient::httpMethod_
  disk,              \* the file inputFilename_ names: [exists, data]
  loggingEnabled_,   \* CurlClient::loggingEnabled_
  h2c_,              \* CurlClient::h2c_
  request_,          \* CurlClient::request_: [headers, method, upgrade]
  conn,              \* what the connector has reported so far
  txn_,              \* CurlClient::txn_
  inputFile_,        \* CurlClient::inputFile_: [null, good, pos]
  egressPaused_,     \* CurlClient::egressPaused_
  response_,         \* CurlClient::response_
  pushTxnHandlers_,  \* CurlClient::pushTxnHandlers_: the CurlPushHandler objects
  recvWindow_,       \* CurlClient::recvWindow_
  loopEvents,        \* transaction callbacks delivered from the event loop so far
  trace,             \* callbacks delivered to, and transport calls made by, the driver
  out,               \* what was written to cout and to the log
  twin               \* a second driver, given the same arguments and callbacks,
                     \* whose loggingEnabled_ is the opposite

vars ==
  <<headersString, parsed, headers, httpMethod_, disk, loggingEnabled_, h2c_,
    request_, conn, txn_, inputFile_, egressPaused_, response_,
    pushTxnHandlers_, recvWindow_, loopEvents, trace, out, twin>>

Null == "null"

(***************************************************************************)
(* Bounds of the model.                                                     *)
(***************************************************************************)
MaxEvents == 3       \* callbacks the transport delivers to the main transaction
MaxPushEvents == 4   \* callbacks the transport delivers for pushed transactions
MaxPush == 2         \* pushed transactions
MaxSinkEvents == 3   \* callbacks the transport delivers for the response
MaxAllEvents == 2    \* callbacks of any kind the transport delivers
MaxHeaders == 2      \* headers the caller gives to the constructor
MaxSpecLen == 5      \* characters of a header specification
MaxFullChunks == 2   \* body sources hold up to this many full chunks, and a few bytes
MaxSeed == 1         \* body sources with different contents per size

kReadSize == 4096

Min(a, b) == IF a < b THEN a ELSE b

(***************************************************************************)
(* The body sources.  Byte i of a source is a function of i and of the      *)
(* source's seed, so that equal payloads mean equal offsets within a chunk. *)
(***************************************************************************)
FileSizes ==
  {k * kReadSize + d : k \in 0..MaxFullChunks, d \in {0, 1}}
    \cup {kReadSize - 1, 10000}

FileData(size, seed) ==
  [i \in 1..size |-> (seed + 7 * i + (i \div 256)) % 256]

Disks ==
  {[exists |-> FALSE, data |-> <<>>]}
    \cup {[exists |-> TRUE, data |-> FileData(n, s)] : n \in FileSizes, s \in 0..MaxSeed}

(***************************************************************************)
(* The trace: one entry per callback delivered ("in"), per call made on the *)
(* session or a transaction ("out") and per message handed to               *)
(* printMessageImpl ("print"), in program order.  h is 0 for the connector  *)
(* and the main transaction, and the handler's place in pushTxnHandlers_    *)
(* for a pushed transaction.                                                *)
(***************************************************************************)
In(name) == [dir |-> "in", h |-> 0, ev |-> name, arg |-> <<>>]
Out(name, a) == [dir |-> "out", h |-> 0, ev |-> name, arg |-> a]
PushIn(h, name, a) == [dir |-> "in", h |-> h, ev |-> name, arg |-> a]
PushOut(h, name) == [dir |-> "out", h |-> h, ev |-> name, arg |-> <<>>]
Printed(h, tag, msg) == [dir |-> "print", h |-> h, ev |-> tag, arg |-> <<msg>>]


(***************************************************************************)
(* Strings are sequences of characters.                                     *)
(***************************************************************************)
UpperChars ==
  <<"A", "B", "C", "D", "E", "F", "G", "H", "I", "J", "K", "L", "M",
    "N", "O", "P", "Q", "R", "S", "T", "U", "V", "W", "X", "Y", "Z">>
LowerChars ==
  <<"a", "b", "c", "d", "e", "f", "g", "h", "i", "j", "k", "l", "m",
    "n", "o", "p", "q", "r", "s", "t", "u", "v", "w", "x", "y", "z">>

ToLower(c) ==
  IF \E i \in DOMAIN UpperChars : UpperChars[i] = c
  THEN LowerChars[CHOOSE i \in DOMAIN UpperChars : UpperChars[i] = c]
  ELSE c

LowerStr(s) == [i \in DOMAIN s |-> ToLower(s[i])]

(***************************************************************************)
(* HTTPHeaders: an ordered list of <<name, value>>; names compare without   *)
(* regard to case.                                                          *)
(***************************************************************************)
SameName(a, b) == LowerStr(a) = LowerStr(b)

HeadersAdd(hdrs, name, value) == Append(hdrs, <<name, value>>)

getNumberOfValues(hdrs, name) ==
  Cardinality({i \in DOMAIN hdrs : SameName(hdrs[i][1], name)})

HTTP_HEADER_USER_AGENT == <<"U", "s", "e", "r", "-", "A", "g", "e", "n", "t">>
HTTP_HEADER_HOST == <<"H", "o", "s", "t">>
HTTP_HEADER_ACCEPT == <<"A", "c", "c", "e", "p", "t">>

ProxygenCurl == <<"p", "r", "o", "x", "y", "g", "e", "n", "_", "c", "u", "r", "l">>
HostAndPort == <<"h", ":", "8", "0">>
AcceptAny == <<"*", "/", "*">>

(***************************************************************************)
(* The driver.  A handler is an operator on the record of the fields a      *)
(* handler can change, so that a handler can run inside another one.        *)
(***************************************************************************)
This ==
  [loggingEnabled_ |-> loggingEnabled_, h2c_ |-> h2c_, recvWindow_ |-> recvWindow_,
   request_ |-> request_, txn_ |-> txn_, inputFile_ |-> inputFile_,
   egressPaused_ |-> egressPaused_, response_ |-> response_,
   pushTxnHandlers_ |-> pushTxnHandlers_, trace |-> trace, out |-> out]

Commit(w) ==
  /\ loggingEnabled_' = w.loggingEnabled_
  /\ h2c_' = w.h2c_
  /\ recvWindow_' = w.recvWindow_
  /\ request_' = w.request_
  /\ txn_' = w.txn_
  /\ inputFile_' = w.inputFile_
  /\ egressPaused_' = w.egressPaused_
  /\ response_' = w.response_
  /\ pushTxnHandlers_' = w.pushTxnHandlers_
  /\ trace' = w.trace
  /\ out' = w.out

\* the handler H runs in the driver, and in its twin
Handle(H(_)) == Commit(H(This)) /\ twin' = H(twin)

Config == <<headersString, parsed, headers, httpMethod_, disk>>

Delivered(w, name) == [w EXCEPT !.trace = Append(@, In(name))]
Call(w, name, a) == [w EXCEPT !.trace = Append(@, Out(name, a))]

\* a callback of the main transaction that carries an argument
DeliveredWith(w, name, a) == [w EXCEPT !.trace = Append(@, PushIn(0, name, a))]

\* LOG_IF(<severity>, loggingEnabled_) << text
LogIf(w, text) ==
  IF w.loggingEnabled_
  THEN [w EXCEPT !.out = Append(@, [to |-> "log", text |-> text, data |-> <<>>])]
  ELSE w

onEgressPaused(w) ==
  [LogIf(Delivered(w, "onEgressPaused"), "Egress paused")
     EXCEPT !.egressPaused_ = TRUE]

\* a send call of the driver, during which the transport may pause egress
Send(w, name, a, pausesEgress) ==
  IF pausesEgress THEN onEgressPaused(Call(w, name, a)) ELSE Call(w, name, a)

\* std::make_unique<ifstream>(inputFilename_, ios::in | ios::binary)
OpenStream == [null |-> FALSE, good |-> disk.exists, pos |-> 0]

\* std::unique_ptr<ifstream> inputFile_, as constructed
NullStream == [null |-> TRUE, good |-> FALSE, pos |-> 0]

\* inputFile_->read(buf, kReadSize); buf->append(inputFile_->gcount())
gcount(stream) == Min(kReadSize, Len(disk.data) - stream.pos)

\* a feeder that sends the buffer's full capacity
AppendsCapacity(stream) == kReadSize

AppendedLength(stream) == gcount(stream)

\* the buffer handed to sendBody: the bytes read, up to the appended length
\* (createCombined does not initialise the buffer)
ReadBuf(stream) ==
  LET len == AppendedLength(stream)
      n == Min(len, gcount(stream))
  IN SubSeq(disk.data, stream.pos + 1, stream.pos + n) \o [i \in 1..(len - n) |-> 0]

ReadStream(stream) ==
  [stream EXCEPT !.good = (gcount(stream) = kReadSize),
                 !.pos = stream.pos + gcount(stream)]

\* a feeder that reads on while egress is paused
FeederIgnoresPause(w) == w.inputFile_.good

\* while (inputFile_->good() && !egressPaused_)
FeederContinues(w) == w.inputFile_.good /\ ~w.egressPaused_

\* a feeder that ends the message whenever its loop ends
FeederAlwaysEnds(w) == TRUE

\* if (!egressPaused_)
FeederEnds(w) == ~w.egressPaused_

\* The loop of sendBodyFromFile; k counts this invocation's sendBody calls, and
\* the transport pauses egress during call number pauseAt (0: during none).
RECURSIVE FeedLoop(_, _, _)
FeedLoop(w, k, pauseAt) ==
  IF FeederContinues(w)
  THEN LET buf == ReadBuf(w.inputFile_)
           w1 == [w EXCEPT !.inputFile_ = ReadStream(@)]
       IN FeedLoop(Send(w1, "sendBody", buf, k = pauseAt), k + 1, pauseAt)
  ELSE w

sendBodyFromFile(w, pauseAt) ==
  LET w1 == FeedLoop(w, 1, pauseAt)
  IN IF FeederEnds(w1) THEN Call(w1, "sendEOM", <<>>) ELSE w1

\* the sendBody calls an invocation of the feeder can make at most
MaxCalls(stream) ==
  IF stream.good THEN (Len(disk.data) - stream.pos) \div kReadSize + 1 ELSE 0

\* a default that is added whatever the request holds
DefaultHeaderAlways(hdrs, name, value) == HeadersAdd(hdrs, name, value)

DefaultHeader(hdrs, name, value) ==
  IF getNumberOfValues(hdrs, name) = 0
  THEN HeadersAdd(hdrs, name, value)
  ELSE hdrs

DefaultHeaders(hdrs) ==
  DefaultHeader(
    DefaultHeader(
      DefaultHeader(hdrs, HTTP_HEADER_USER_AGENT, ProxygenCurl),
      HTTP_HEADER_HOST, HostAndPort),
    HTTP_HEADER_ACCEPT, AcceptAny)

\* HTTP2Codec::requestUpgrade(request_) tags the request for the upgrade to h2c
requestUpgrade(req) == [req EXCEPT !.upgrade = TRUE]

BuildRequest(req, h2c) ==
  LET r1 == [req EXCEPT !.method = httpMethod_]
      r2 == IF h2c THEN requestUpgrade(r1) ELSE r1
  IN [r2 EXCEPT !.headers = DefaultHeaders(@)]

sendRequest(w, pauseInHeaders, pauseAt) ==
  LET w1 == [w EXCEPT !.txn_ = "txn", !.request_ = BuildRequest(@, w.h2c_)]
      w2 == IF w.loggingEnabled_
            THEN [w1 EXCEPT !.out = Append(@, [to |-> "cout", text |-> "request",
                                               data |-> <<>>])]
            ELSE w1
      w3 == Send(w2, "sendHeaders", <<>>, pauseInHeaders)
  IN IF httpMethod_ = "POST"
     THEN sendBodyFromFile([w3 EXCEPT !.inputFile_ = OpenStream], pauseAt)
     ELSE Call(w3, "sendEOM", <<>>)

\* CurlClient::initializeSsl(caPath, nextProtos, certPath, keyPath): of what it
\* does, the driver reads h2c_ only
initializeSsl(w) == [Delivered(w, "initializeSsl") EXCEPT !.h2c_ = FALSE]

\* the receive windows a caller may set
Windows == {65536, 1048576}

\* CurlClient::setFlowControlSettings(recvWindow)
setFlowControlSettings(w, recvWindow) == [w EXCEPT !.recvWindow_ = recvWindow]

\* a connectSuccess that tells the session to close before it sends the request
connectSuccessClosesFirst(w, pauseInHeaders, pauseAt) ==
  LET w1 == Call(Delivered(w, "connectSuccess"), "setFlowControl",
                 <<w.recvWindow_, w.recvWindow_, w.recvWindow_>>)
  IN sendRequest(Call(w1, "closeWhenIdle", <<>>), pauseInHeaders, pauseAt)

connectSuccess(w, pauseInHeaders, pauseAt) ==
  LET w1 == Call(Delivered(w, "connectSuccess"), "setFlowControl",
                 <<w.recvWindow_, w.recvWindow_, w.recvWindow_>>)
  IN Call(sendRequest(w1, pauseInHeaders, pauseAt), "closeWhenIdle", <<>>)

\* a resume that opens the body source again
onEgressResumedReopens(w, pauseAt) ==
  LET w1 == [LogIf(Delivered(w, "onEgressResumed"), "Egress resumed")
               EXCEPT !.egressPaused_ = FALSE]
  IN IF ~w1.inputFile_.null
     THEN sendBodyFromFile([w1 EXCEPT !.inputFile_ = OpenStream], pauseAt)
     ELSE w1

\* a resume that feeds without looking at inputFile_
onEgressResumedUnguarded(w, pauseAt) ==
  LET w1 == [LogIf(Delivered(w, "onEgressResumed"), "Egress resumed")
               EXCEPT !.egressPaused_ = FALSE]
  IN sendBodyFromFile(w1, pauseAt)

\* a resume that feeds only from a source that is still good()
onEgressResumedIfGood(w, pauseAt) ==
  LET w1 == [LogIf(Delivered(w, "onEgressResumed"), "Egress resumed")
               EXCEPT !.egressPaused_ = FALSE]
  IN IF ~w1.inputFile_.null /\ w1.inputFile_.good
     THEN sendBodyFromFile(w1, pauseAt)
     ELSE w1

onEgressResumed(w, pauseAt) ==
  LET w1 == [LogIf(Delivered(w, "onEgressResumed"), "Egress resumed")
               EXCEPT !.egressPaused_ = FALSE]
  IN IF ~w1.inputFile_.null THEN sendBodyFromFile(w1, pauseAt) ELSE w1

detachTransaction(w) == Delivered(w, "detachTransaction")

\* LOG_IF(<severity>, loggingEnabled_) << text << data[1] << ":" << data[2]
LogIfNaming(w, text, data) ==
  IF w.loggingEnabled_
  THEN [w EXCEPT !.out = Append(@, [to |-> "log", text |-> text, data |-> data])]
  ELSE w

\* what ex.what() may say
Reasons == {"timed out", "refused"}

\* a connectError that logs whatever loggingEnabled_ is
connectErrorAlwaysLogs(w, reason) ==
  LET w1 == Delivered(w, "connectError")
  IN [w1 EXCEPT !.out = Append(@, [to |-> "log", text |-> "Coudln't connect to ",
                                   data |-> <<HostAndPort, reason>>])]

connectError(w, reason) ==
  LogIfNaming(Delivered(w, "connectError"), "Coudln't connect to ",
              <<HostAndPort, reason>>)

(***************************************************************************)
(* The callbacks of the connector and of the main transaction.              *)
(***************************************************************************)
ConnectSuccess ==
  /\ conn = "connecting"
  /\ conn' = "connected"
  /\ \E pauseInHeaders \in BOOLEAN :
       \E pauseAt \in 0..(IF httpMethod_ = "POST" /\ ~pauseInHeaders
                           THEN MaxCalls(OpenStream) ELSE 0) :
         Handle(LAMBDA w : connectSuccess(w, pauseInHeaders, pauseAt))
  /\ UNCHANGED <<Config, loopEvents>>

SslInitialized == \E i \in DOMAIN trace : trace[i].ev = "initializeSsl"

\* the caller sets up TLS before it connects
InitializeSsl ==
  /\ conn = "connecting"
  /\ ~SslInitialized
  /\ Handle(LAMBDA w : initializeSsl(w))
  /\ UNCHANGED <<Config, conn, loopEvents>>

\* the caller sets the receive window before the connector reports
SetFlowControlSettings ==
  /\ conn = "connecting"
  /\ \E recvWindow \in Windows \ {recvWindow_} :
       Handle(LAMBDA w : setFlowControlSettings(w, recvWindow))
  /\ UNCHANGED <<Config, conn, loopEvents>>

ConnectError ==
  /\ conn = "connecting"
  /\ conn' = "failed"
  /\ \E reason \in Reasons : Handle(LAMBDA w : connectError(w, reason))
  /\ UNCHANGED <<Config, loopEvents>>

\* a callback of the main transaction, delivered from the event loop
FromLoop ==
  /\ conn = "connected"
  /\ loopEvents < MaxEvents
  /\ loopEvents' = loopEvents + 1
  /\ UNCHANGED <<Config, conn>>

OnEgressPaused ==
  /\ FromLoop
  /\ Handle(LAMBDA w : onEgressPaused(w))

OnEgressResumed ==
  /\ FromLoop
  /\ \E pauseAt \in 0..(IF ~inputFile_.null THEN MaxCalls(inputFile_) ELSE 0) :
       Handle(LAMBDA w : onEgressResumed(w, pauseAt))

Detached == \E i \in DOMAIN trace : trace[i].ev = "detachTransaction"

DetachTransaction ==
  /\ FromLoop
  /\ ~Detached
  /\ Handle(LAMBDA w : detachTransaction(w))

(***************************************************************************)
(* The driver as constructed: CurlClient(evb, httpMethod, url, proxy,       *)
(* headers, inputFilename, h2c, ...), before the connector reports.         *)
(***************************************************************************)
Constructed(method, hdrs, file, h2c, logging) ==
  /\ headersString = <<>>
  /\ parsed = <<>>
  /\ headers = hdrs
  /\ httpMethod_ = method
  /\ disk = file
  /\ h2c_ = h2c
  /\ loggingEnabled_ = logging
  /\ request_ = [headers |-> hdrs, method |-> Null, upgrade |-> FALSE]
  /\ conn = "connecting"
  /\ txn_ = Null
  /\ inputFile_ = NullStream
  /\ egressPaused_ = FALSE
  /\ response_ = Null
  /\ pushTxnHandlers_ = <<>>
  /\ recvWindow_ = 65536
  /\ loopEvents = 0
  /\ trace = <<>>
  /\ out = <<>>
  /\ twin = [This EXCEPT !.loggingEnabled_ = ~logging]

NoDisk == [exists |-> FALSE, data |-> <<>>]

Init ==
  \E method \in {"GET", "POST"}, logging \in BOOLEAN :
    \E file \in (IF method = "POST" THEN Disks ELSE {NoDisk}) :
      Constructed(method, <<>>, file, FALSE, logging)

Next ==
  \/ ConnectSuccess
  \/ ConnectError
  \/ OnEgressPaused
  \/ OnEgressResumed
  \/ DetachTransaction

Spec == Init /\ [][Next]_vars

\* the transport resumes an egress it has paused, however many events it has
\* delivered before
ResumeAfterPause ==
  /\ conn = "connected"
  /\ egressPaused_
  /\ \E pauseAt \in 0..(IF ~inputFile_.null THEN MaxCalls(inputFile_) ELSE 0) :
       Handle(LAMBDA w : onEgressResumed(w, pauseAt))
  /\ UNCHANGED <<Config, conn, loopEvents>>

\* a POST of no file, of an empty file, of one byte, and of one chunk and a byte
InitLive ==
  \E logging \in BOOLEAN :
    \E file \in {d \in Disks : Len(d.data) \in {0, 1, kReadSize + 1}} :
      Constructed("POST", <<>>, file, FALSE, logging)

NextLive ==
  \/ ConnectSuccess
  \/ ConnectError
  \/ OnEgressPaused
  \/ OnEgressResumed
  \/ DetachTransaction
  \/ ResumeAfterPause

\* every pause is eventually followed by a resume
SpecLive == InitLive /\ [][NextLive]_vars /\ WF_vars(ResumeAfterPause)

(***************************************************************************)
(* Pushed transactions: CurlClient::CurlPushHandler.                        *)
(***************************************************************************)
Msgs == {"m1", "m2"}

\* CurlPushHandler(parent), as constructed
NewPushHandler ==
  [seenOnHeadersComplete_ |-> FALSE, promise_ |-> Null, response_ |-> Null,
   pushedTxn_ |-> Null]

\* CurlClient::printMessageImpl(msg, tag), called for handler h
printMessageImpl(w, h, msg, tag) ==
  LET w1 == [w EXCEPT !.trace = Append(@, Printed(h, tag, msg))]
  IN IF w.loggingEnabled_
     THEN [w1 EXCEPT !.out = Append(@, [to |-> "cout", text |-> tag,
                                        data |-> <<msg>>])]
     ELSE w1

\* a handler that gives its transaction to the driver as well
pushSetTransactionTakesOver(w, h, txn) ==
  [LogIf([w EXCEPT !.trace = Append(@, PushIn(h, "setTransaction", <<txn>>))],
         "Received pushed transaction")
     EXCEPT !.pushTxnHandlers_[h].pushedTxn_ = txn, !.txn_ = txn]

pushSetTransaction(w, h, txn) ==
  [LogIf([w EXCEPT !.trace = Append(@, PushIn(h, "setTransaction", <<txn>>))],
         "Received pushed transaction")
     EXCEPT !.pushTxnHandlers_[h].pushedTxn_ = txn]

\* the transaction the transport pushes: its n-th one is transaction n
PushedTxn(w) ==
  1 + Cardinality({i \in DOMAIN w.trace : w.trace[i].ev = "onPushedTransaction"})

\* pushedTxn->setHandler(handler), with which the transport gives the handler
\* its transaction
SetHandler(w, h, txn) ==
  pushSetTransaction(
    [w EXCEPT !.trace = Append(@, [PushOut(h, "setHandler") EXCEPT !.arg = <<txn>>])],
    h, txn)

\* an onPushedTransaction that gives the transaction to the first handler
onPushedTransactionBindsFront(w) ==
  LET pushedTxn == PushedTxn(w)
      w1 == [DeliveredWith(w, "onPushedTransaction", <<pushedTxn>>)
               EXCEPT !.pushTxnHandlers_ = Append(@, NewPushHandler)]
  IN SetHandler(w1, 1, pushedTxn)

onPushedTransaction(w) ==
  LET pushedTxn == PushedTxn(w)
      w1 == [DeliveredWith(w, "onPushedTransaction", <<pushedTxn>>)
               EXCEPT !.pushTxnHandlers_ = Append(@, NewPushHandler)]
  IN SetHandler(w1, Len(w1.pushTxnHandlers_), pushedTxn)

\* a handler that does not remember the first headers
pushOnHeadersCompleteForgets(w, h, msg) ==
  LET w1 == [w EXCEPT !.trace = Append(@, PushIn(h, "onHeadersComplete", <<msg>>))]
  IN IF ~w1.pushTxnHandlers_[h].seenOnHeadersComplete_
     THEN printMessageImpl([w1 EXCEPT !.pushTxnHandlers_[h].promise_ = msg],
                           h, msg, "[PP] ")
     ELSE printMessageImpl([w1 EXCEPT !.pushTxnHandlers_[h].response_ = msg],
                           h, msg, "[PR] ")

\* a handler that takes the headers after a response for a new promise
pushOnHeadersCompleteStartsOver(w, h, msg) ==
  LET w1 == [w EXCEPT !.trace = Append(@, PushIn(h, "onHeadersComplete", <<msg>>))]
  IN IF ~w1.pushTxnHandlers_[h].seenOnHeadersComplete_
     THEN printMessageImpl(
            [w1 EXCEPT !.pushTxnHandlers_[h].seenOnHeadersComplete_ = TRUE,
                       !.pushTxnHandlers_[h].promise_ = msg],
            h, msg, "[PP] ")
     ELSE printMessageImpl(
            [w1 EXCEPT !.pushTxnHandlers_[h].seenOnHeadersComplete_ = FALSE,
                       !.pushTxnHandlers_[h].response_ = msg],
            h, msg, "[PR] ")

pushOnHeadersComplete(w, h, msg) ==
  LET w1 == [w EXCEPT !.trace = Append(@, PushIn(h, "onHeadersComplete", <<msg>>))]
  IN IF ~w1.pushTxnHandlers_[h].seenOnHeadersComplete_
     THEN printMessageImpl(
            [w1 EXCEPT !.pushTxnHandlers_[h].seenOnHeadersComplete_ = TRUE,
                       !.pushTxnHandlers_[h].promise_ = msg],
            h, msg, "[PP] ")
     ELSE printMessageImpl([w1 EXCEPT !.pushTxnHandlers_[h].response_ = msg],
                           h, msg, "[PR] ")

pushDetachTransaction(w, h) ==
  LogIf([w EXCEPT !.trace = Append(@, PushIn(h, "detachTransaction", <<>>))],
        "Detached pushed transaction")

pushOnEOM(w, h) ==
  LogIf([w EXCEPT !.trace = Append(@, PushIn(h, "onEOM", <<>>))], "Got PushTxn EOM")

\* CurlClient::onError(error), as the push handler calls it
onError(w) == LogIf(w, "An error occurred")

pushOnError(w, h) ==
  onError([w EXCEPT !.trace = Append(@, PushIn(h, "onError", <<>>))])

Write(w, text, data) ==
  [w EXCEPT !.out = Append(@, [to |-> "cout", text |-> text, data |-> data])]

\* a traversal that steps over the segment after p
NextSegmentSkips(chain, p) == ((p + 1) % Len(chain)) + 1

\* the segment after segment p of a chain: the chain is circular
NextSegment(chain, p) == (p % Len(chain)) + 1

\* do { cout.write(p); cout.flush(); p = p->next(); } while (p != chain.get())
RECURSIVE WriteChain(_, _, _)
WriteChain(w, chain, p) ==
  LET w1 == Write(Write(w, "write", chain[p]), "flush", <<>>)
      q == NextSegment(chain, p)
  IN IF q # 1 THEN WriteChain(w1, chain, q) ELSE w1

\* CurlClient::onBody(chain); a null chain is <<>>
onBody(w, chain) ==
  IF ~w.loggingEnabled_ THEN w
  ELSE IF chain # <<>> THEN WriteChain(w, chain, 1) ELSE w

pushOnBody(w, h, chain) ==
  onBody([w EXCEPT !.trace = Append(@, PushIn(h, "onBody", chain))], chain)

\* the body chains the transport delivers: null, and of 1, 2 and 3 segments
Chains ==
  {<<>>, << <<1, 2>> >>, << <<3>>, <<4, 5>> >>, << <<6>>, <<7, 8>>, <<6>> >>}

\* a callback of a pushed transaction, delivered from the event loop
FromLoopPush ==
  /\ conn = "connected"
  /\ loopEvents < MaxPushEvents
  /\ loopEvents' = loopEvents + 1
  /\ UNCHANGED <<Config, conn>>

OnPushedTransaction ==
  /\ FromLoopPush
  /\ Len(pushTxnHandlers_) < MaxPush
  /\ Handle(LAMBDA w : onPushedTransaction(w))

PushOnHeadersComplete ==
  /\ FromLoopPush
  /\ \E h \in DOMAIN pushTxnHandlers_, msg \in Msgs :
       Handle(LAMBDA w : pushOnHeadersComplete(w, h, msg))

PushDetachTransaction ==
  /\ FromLoopPush
  /\ \E h \in DOMAIN pushTxnHandlers_ :
       Handle(LAMBDA w : pushDetachTransaction(w, h))

PushOnEOM ==
  /\ FromLoopPush
  /\ \E h \in DOMAIN pushTxnHandlers_ : Handle(LAMBDA w : pushOnEOM(w, h))

PushOnError ==
  /\ FromLoopPush
  /\ \E h \in DOMAIN pushTxnHandlers_ : Handle(LAMBDA w : pushOnError(w, h))

PushOnBody ==
  /\ FromLoopPush
  /\ \E h \in DOMAIN pushTxnHandlers_, chain \in Chains :
       Handle(LAMBDA w : pushOnBody(w, h, chain))

InitPush ==
  \E logging \in BOOLEAN : Constructed("GET", <<>>, NoDisk, FALSE, logging)

NextPush ==
  \/ ConnectSuccess
  \/ OnPushedTransaction
  \/ PushOnHeadersComplete
  \/ PushOnBody
  \/ PushDetachTransaction
  \/ PushOnEOM
  \/ PushOnError

SpecPush == InitPush /\ [][NextPush]_vars

(***************************************************************************)
(* The response of the main transaction: the HTTPTransactionHandler         *)
(* callbacks of CurlClient.                                                 *)
(***************************************************************************)
\* an onHeadersComplete that keeps the response only to print it
onHeadersCompleteKeepsIfLogged(w, msg) ==
  LET w1 == DeliveredWith(w, "onHeadersComplete", <<msg>>)
  IN IF w.loggingEnabled_
     THEN printMessageImpl([w1 EXCEPT !.response_ = msg], 0, msg, "")
     ELSE w1

onHeadersComplete(w, msg) ==
  printMessageImpl([DeliveredWith(w, "onHeadersComplete", <<msg>>)
                      EXCEPT !.response_ = msg],
                   0, msg, "")

onTrailers(w) == LogIf(Delivered(w, "onTrailers"), "Discarding trailers")

onEOM(w) == LogIf(Delivered(w, "onEOM"), "Got EOM")

onUpgrade(w) == LogIf(Delivered(w, "onUpgrade"), "Discarding upgrade protocol")

\* a callback of the main transaction's response, delivered from the event loop
FromLoopSink ==
  /\ conn = "connected"
  /\ loopEvents < MaxSinkEvents
  /\ loopEvents' = loopEvents + 1
  /\ UNCHANGED <<Config, conn>>

OnHeadersComplete ==
  /\ FromLoopSink
  /\ \E msg \in Msgs : Handle(LAMBDA w : onHeadersComplete(w, msg))

OnBody ==
  /\ FromLoopSink
  /\ \E chain \in Chains :
       Handle(LAMBDA w : onBody(DeliveredWith(w, "onBody", chain), chain))

OnTrailers ==
  /\ FromLoopSink
  /\ Handle(LAMBDA w : onTrailers(w))

OnEOM ==
  /\ FromLoopSink
  /\ Handle(LAMBDA w : onEOM(w))

OnUpgrade ==
  /\ FromLoopSink
  /\ Handle(LAMBDA w : onUpgrade(w))

OnError ==
  /\ FromLoopSink
  /\ Handle(LAMBDA w : onError(Delivered(w, "onError")))

\* a pushed transaction and its body, among the callbacks of the main one
OnPushedTransactionSink ==
  /\ FromLoopSink
  /\ Len(pushTxnHandlers_) < MaxPush
  /\ Handle(LAMBDA w : onPushedTransaction(w))

PushOnBodySink ==
  /\ FromLoopSink
  /\ \E h \in DOMAIN pushTxnHandlers_, chain \in Chains :
       Handle(LAMBDA w : pushOnBody(w, h, chain))

InitSink ==
  \E logging \in BOOLEAN : Constructed("GET", <<>>, NoDisk, FALSE, logging)

NextSink ==
  \/ ConnectSuccess
  \/ OnHeadersComplete
  \/ OnBody
  \/ OnTrailers
  \/ OnEOM
  \/ OnUpgrade
  \/ OnError
  \/ OnPushedTransactionSink
  \/ PushOnBodySink

SpecSink == InitSink /\ [][NextSink]_vars

(***************************************************************************)
(* The driver with all its callbacks: a GET, and a POST of one chunk and a   *)
(* byte, with logging, and its twin without.                                *)
(***************************************************************************)
InitAll ==
  \E method \in {"GET", "POST"}, h2c \in BOOLEAN :
    \E file \in (IF method = "POST"
                 THEN {d \in Disks : Len(d.data) = kReadSize + 1}
                 ELSE {NoDisk}) :
      Constructed(method, <<>>, file, h2c, TRUE)

\* the transport has callbacks left to deliver
Within == loopEvents < MaxAllEvents

NextAll ==
  \/ Within /\ InitializeSsl
  \/ Within /\ SetFlowControlSettings
  \/ Within /\ ConnectSuccess
  \/ Within /\ ConnectError
  \/ Within /\ OnEgressPaused
  \/ Within /\ OnEgressResumed
  \/ Within /\ DetachTransaction
  \/ Within /\ OnHeadersComplete
  \/ Within /\ OnBody
  \/ Within /\ OnTrailers
  \/ Within /\ OnEOM
  \/ Within /\ OnUpgrade
  \/ Within /\ OnError
  \/ Within /\ OnPushedTransaction
  \/ Within /\ PushOnHeadersComplete
  \/ Within /\ PushOnBody
  \/ Within /\ PushDetachTransaction
  \/ Within /\ PushOnEOM
  \/ Within /\ PushOnError

SpecAll == InitAll /\ [][NextAll]_vars

(***************************************************************************)
(* The request headers: the constructor copies the caller's headers into    *)
(* request_, and sendRequest adds the defaults.                             *)
(***************************************************************************)
HeaderNames ==
  {HTTP_HEADER_USER_AGENT, LowerStr(HTTP_HEADER_USER_AGENT),
   HTTP_HEADER_HOST, <<"H", "O", "S", "T">>,
   HTTP_HEADER_ACCEPT, <<"a", "C", "C", "E", "P", "T">>,
   <<"X", "-", "A">>}

HeaderValues == {<<"v">>, <<>>}

\* the header collections a caller may give
CallerHeaders ==
  UNION {[1..k -> HeaderNames \X HeaderValues] : k \in 0..MaxHeaders}

InitHeaders ==
  \E method \in {"GET", "POST"}, hdrs \in CallerHeaders, h2c \in BOOLEAN :
    Constructed(method, hdrs, NoDisk, h2c, FALSE)

NextHeaders ==
  \/ InitializeSsl
  \/ ConnectSuccess
  \/ ConnectError

SpecHeaders == InitHeaders /\ [][NextHeaders]_vars

(***************************************************************************)
(* CurlClient::parseHeaders.                                                *)
(***************************************************************************)
\* folly::split(delim, s, out): the pieces of s between the delimiters, the
\* empty ones too; cur is the piece being read, acc the pieces read
RECURSIVE SplitFrom(_, _, _, _, _)
SplitFrom(s, delim, i, cur, acc) ==
  IF i > Len(s) THEN Append(acc, cur)
  ELSE IF s[i] = delim
       THEN SplitFrom(s, delim, i + 1, <<>>, Append(acc, cur))
       ELSE SplitFrom(s, delim, i + 1, Append(cur, s[i]), acc)

split(delim, s) == SplitFrom(s, delim, 1, <<>>, <<>>)

\* a parser that keeps the pairs with an empty name
ParsePairKeepsEmpty(hdrs, headerPair) ==
  LET nv == split("=", headerPair)
  IN IF Len(nv) > 0
     THEN HeadersAdd(hdrs, nv[1], IF Len(nv) > 1 THEN nv[2] ELSE <<>>)
     ELSE hdrs

\* the body of the loop over headersList
ParsePair(hdrs, headerPair) ==
  LET nv == split("=", headerPair)
  IN IF Len(nv) > 0
     THEN IF nv[1] = <<>>
          THEN hdrs
          ELSE HeadersAdd(hdrs, nv[1], IF Len(nv) > 1 THEN nv[2] ELSE <<>>)
     ELSE hdrs

RECURSIVE ParsePairs(_, _, _)
ParsePairs(hdrs, headersList, i) ==
  IF i > Len(headersList) THEN hdrs
  ELSE ParsePairs(ParsePair(hdrs, headersList[i]), headersList, i + 1)

parseHeaders(s) == ParsePairs(<<>>, split(",", s), 1)

SpecChars == {"A", "B", "=", ",", "1"}

ScenarioD == <<"A", "=", "1", ",", "=", "2", ",", "B">>

HeaderSpecs ==
  UNION {[1..k -> SpecChars] : k \in 0..MaxSpecLen} \cup {ScenarioD}

ParseHeaders ==
  /\ parsed = <<>>
  /\ parsed' = <<parseHeaders(headersString)>>
  /\ UNCHANGED <<headersString, headers, httpMethod_, disk, loggingEnabled_, h2c_,
                 request_, conn, txn_, inputFile_, egressPaused_, response_,
                 pushTxnHandlers_, recvWindow_, loopEvents, trace, out, twin>>

InitParse ==
  /\ headersString \in HeaderSpecs
  /\ parsed = <<>>
  /\ headers = <<>>
  /\ httpMethod_ = "GET"
  /\ disk = NoDisk
  /\ h2c_ = FALSE
  /\ loggingEnabled_ = FALSE
  /\ request_ = [headers |-> <<>>, method |-> Null, upgrade |-> FALSE]
  /\ conn = "connecting"
  /\ txn_ = Null
  /\ inputFile_ = NullStream
  /\ egressPaused_ = FALSE
  /\ response_ = Null
  /\ pushTxnHandlers_ = <<>>
  /\ recvWindow_ = 65536
  /\ loopEvents = 0
  /\ trace = <<>>
  /\ out = <<>>
  /\ twin = [This EXCEPT !.loggingEnabled_ = TRUE]

NextParse == ParseHeaders

SpecParse == InitParse /\ [][NextParse]_vars

(***************************************************************************)
(* What the trace says.                                                     *)
(***************************************************************************)
Sends == {"sendHeaders", "sendBody", "sendEOM"}

Indices(name) == {i \in DOMAIN trace : trace[i].ev = name}

Count(name) == Cardinality(Indices(name))

\* the payloads of the first n entries of the trace, concatenated
RECURSIVE SentBefore(_)
SentBefore(n) ==
  IF n = 0 THEN <<>>
  ELSE IF trace[n].ev = "sendBody"
       THEN SentBefore(n - 1) \o trace[n].arg
       ELSE SentBefore(n - 1)

Sent == SentBefore(Len(trace))

IsPrefix(a, b) == Len(a) <= Len(b) /\ a = SubSeq(b, 1, Len(a))

\* entry i of the trace comes after an onEgressPaused with no onEgressResumed between
PausedAt(i) ==
  \E j \in 1..(i - 1) :
    /\ trace[j].ev = "onEgressPaused"
    /\ \A k \in (j + 1)..(i - 1) : trace[k].ev # "onEgressResumed"

\* the transport paused egress from inside the sendBody call of entry i
PausedInside(i) ==
  /\ i + 1 \in DOMAIN trace
  /\ trace[i].ev = "sendBody"
  /\ trace[i + 1].ev = "onEgressPaused"

NoFlowControl == Count("onEgressPaused") = 0 /\ Count("onEgressResumed") = 0

\* C1: for a POST, the payloads of the sendBody calls made so far, concatenated,
\* are a prefix of the body source, and are the whole source at every sendEOM,
\* whatever pauses (also from inside sendBody) and resumes were delivered.
C1_BodyIsSourcePrefix ==
  httpMethod_ = "POST" =>
    /\ IsPrefix(Sent, disk.data)
    /\ \A i \in Indices("sendEOM") : SentBefore(i) = disk.data

C1_Witness ==
  /\ httpMethod_ = "POST"
  /\ Count("sendEOM") > 0
  /\ \E i \in Indices("sendBody"), r \in Indices("onEgressResumed") :
       /\ PausedInside(i)
       /\ i < r
       /\ r + 1 \in DOMAIN trace
       /\ trace[r + 1].ev = "sendBody"
       /\ Len(trace[i].arg) = kReadSize

\* C2: no sendBody call is made while egress is paused: every sendBody of the
\* trace comes before any onEgressPaused or after a later onEgressResumed.
C2_NoBodyWhilePaused ==
  \A i \in Indices("sendBody") : ~PausedAt(i)

C2_Witness ==
  \E p \in Indices("onEgressPaused"), r \in Indices("onEgressResumed") :
    /\ p + 1 < r
    /\ PausedAt(r)
    /\ \A k \in p..r : trace[k].ev # "sendBody"
    /\ \E b \in Indices("sendBody") : b > r

\* C3: the feeder calls sendEOM only when egress is not paused and the source
\* is exhausted; a pause that arrives first leaves the message open.
C3_EomOnlyUnpausedAtEnd ==
  httpMethod_ = "POST" =>
    /\ \A i \in Indices("sendEOM") : ~PausedAt(i)
    /\ Count("sendEOM") > 0 => ~inputFile_.good
    /\ (egressPaused_ /\ inputFile_.good) => Count("sendEOM") = 0

C3_Witness ==
  /\ httpMethod_ = "POST"
  /\ egressPaused_
  /\ ~inputFile_.good
  /\ Len(disk.data) > 0
  /\ Sent = disk.data
  /\ Count("sendEOM") = 0

\* C4: a POST whose body source is an empty file has sendEOM called with no
\* sendBody call before it.
C4_EmptySourceNoBody ==
  (httpMethod_ = "POST" /\ disk.exists /\ Len(disk.data) = 0) =>
    \A i \in Indices("sendEOM") : \A j \in 1..i : trace[j].ev # "sendBody"

\* the chunk lengths of a source of n bytes read kReadSize bytes at a time,
\* the last read being the first one that comes short
ChunkLengths(n) ==
  [j \in 1..(n \div kReadSize + 1) |-> Min(kReadSize, n - (j - 1) * kReadSize)]

BodyCalls == SelectSeq(trace, LAMBDA e : e.ev = "sendBody")

C6_NoSendAfterDetach ==
  \A d \in Indices("detachTransaction") :
    \A i \in DOMAIN trace : i > d => trace[i].ev \notin Sends

HeadersOf(h) ==
  SelectSeq(trace, LAMBDA e : e.dir = "in" /\ e.h = h /\ e.ev = "onHeadersComplete")

\* the messages handler h handed to printMessageImpl, in order
PrintsOf(h) == SelectSeq(trace, LAMBDA e : e.dir = "print" /\ e.h = h)

\* C7: whatever the events and the messages, a push handler's first
\* onHeadersComplete stores its message as the promise, printed with the tag
\* "[PP] ", and leaves the response unset; the second one stores its message
\* as the response, printed with the tag "[PR] ", and leaves the promise.
C7_PromiseThenResponse ==
  \A h \in DOMAIN pushTxnHandlers_ :
    LET hdrs == HeadersOf(h)
        prints == PrintsOf(h)
        hd == pushTxnHandlers_[h]
    IN /\ Len(hdrs) = 0 => hd.promise_ = Null /\ hd.response_ = Null
       /\ Len(hdrs) = 1 =>
            /\ hd.promise_ = hdrs[1].arg[1]
            /\ hd.response_ = Null
            /\ prints = <<Printed(h, "[PP] ", hdrs[1].arg[1])>>
       /\ Len(hdrs) = 2 =>
            /\ hd.promise_ = hdrs[1].arg[1]
            /\ hd.response_ = hdrs[2].arg[1]
            /\ prints = <<Printed(h, "[PP] ", hdrs[1].arg[1]),
                          Printed(h, "[PR] ", hdrs[2].arg[1])>>

C7_Witness ==
  \E h \in DOMAIN pushTxnHandlers_ :
    /\ Len(HeadersOf(h)) = 2
    /\ pushTxnHandlers_[h].promise_ = "m2"
    /\ pushTxnHandlers_[h].response_ = "m1"
    /\ Len(pushTxnHandlers_) = 2

\* the defaults of sendRequest, in the order it adds them
Defaults ==
  <<<<HTTP_HEADER_USER_AGENT, ProxygenCurl>>, <<HTTP_HEADER_HOST, HostAndPort>>,
    <<HTTP_HEADER_ACCEPT, AcceptAny>>>>

CallerGave(name) == \E i \in DOMAIN headers : LowerStr(headers[i][1]) = LowerStr(name)

\* C8: the request sendRequest sends holds the caller's headers, unchanged and
\* in order, followed by the defaults User-Agent, Host and Accept, each one if
\* and only if the caller gave no header of that name, in whatever case.
C8_DefaultsOnlyIfAbsent ==
  conn = "connected" =>
    /\ Len(request_.headers) >= Len(headers)
    /\ SubSeq(request_.headers, 1, Len(headers)) = headers
    /\ SubSeq(request_.headers, Len(headers) + 1, Len(request_.headers))
         = SelectSeq(Defaults, LAMBDA d : ~CallerGave(d[1]))
    /\ \A d \in {Defaults[k] : k \in DOMAIN Defaults} :
         getNumberOfValues(request_.headers, d[1])
           = IF CallerGave(d[1]) THEN getNumberOfValues(headers, d[1]) ELSE 1

C8_Witness ==
  /\ conn = "connected"
  /\ headers = << <<LowerStr(HTTP_HEADER_USER_AGENT), <<"v">> >>,
                  << <<"X", "-", "A">>, <<>> >> >>
  /\ request_.headers
       = headers \o <<<<HTTP_HEADER_HOST, HostAndPort>>, <<HTTP_HEADER_ACCEPT, AcceptAny>>>>

\* the places of character c in string s, in order
Places(s, c) == {i \in DOMAIN s : s[i] = c}

\* place n of a set of places, counted from 1; past the last one, none
Nth(places, n, none) ==
  IF n > Cardinality(places) THEN none
  ELSE CHOOSE i \in places : Cardinality({j \in places : j < i}) = n - 1

\* token t of a specification: the text between comma t - 1 and comma t
Token(s, t) ==
  LET from == IF t = 1 THEN 0 ELSE Nth(Places(s, ","), t - 1, 0)
      to == Nth(Places(s, ","), t, Len(s) + 1)
  IN SubSeq(s, from + 1, to - 1)

TokenName(tok) == SubSeq(tok, 1, Nth(Places(tok, "="), 1, Len(tok) + 1) - 1)

TokenValue(tok) ==
  SubSeq(tok, Nth(Places(tok, "="), 1, Len(tok) + 1) + 1,
         Nth(Places(tok, "="), 2, Len(tok) + 1) - 1)

Tokens(s) == [t \in 1..(Cardinality(Places(s, ",")) + 1) |-> Token(s, t)]

\* C9: parseHeaders returns, for every header specification, one entry per
\* comma-separated token with a non-empty name, in token order: the name is
\* the text before the first '=', the value the text between the first and
\* the second '=' (empty without '='); tokens with an empty name are dropped
\* and equal names stay separate entries.  "A=1,=2,B" gives A->"1", B->"".
C9_ParseHeaders ==
  parsed # <<>> =>
    LET named == SelectSeq(Tokens(headersString), LAMBDA tok : TokenName(tok) # <<>>)
    IN /\ Len(parsed[1]) = Len(named)
       /\ \A k \in DOMAIN named :
            parsed[1][k] = <<TokenName(named[k]), TokenValue(named[k])>>
       /\ headersString = ScenarioD =>
            parsed[1] = << <<<<"A">>, <<"1">>>>, <<<<"B">>, <<>>>> >>

C9_Witness ==
  /\ parsed # <<>>
  /\ headersString = <<"A", "=", "=", ",", "A">>
  /\ parsed[1] = << <<<<"A">>, <<>>>>, <<<<"A">>, <<>>>> >>

(***************************************************************************)
(* C11: the connection error.                                               *)
(***************************************************************************)
\* the driver after a connection error: as constructed, and nothing called
AsConstructed ==
  /\ txn_ = Null
  /\ inputFile_ = NullStream
  /\ ~egressPaused_
  /\ response_ = Null
  /\ pushTxnHandlers_ = <<>>
  /\ request_ = [headers |-> headers, method |-> Null, upgrade |-> FALSE]
  /\ \A i \in DOMAIN trace : trace[i].dir # "out"
  /\ trace = <<In("connectError")>>

ErrorEvents ==
  SelectSeq(out, LAMBDA e : e.to = "log" /\ e.text = "Coudln't connect to ")

NamesHostAndReason(e) == e.data[1] = HostAndPort /\ e.data[2] \in Reasons

BodyDone == Sent = disk.data /\ Count("sendEOM") >= 1

\* C12: when every pause is eventually followed by a resume, a POST that is
\* connected eventually has every byte of its source sent by sendBody calls
\* and sendEOM called; a pause delivered inside the sendBody of the final
\* chunk does not lose the sendEOM.
C12_BodyEventuallyDone ==
  (httpMethod_ = "POST" /\ conn = "connected") ~> BodyDone

C12_Witness ==
  /\ httpMethod_ = "POST"
  /\ BodyDone
  /\ Len(disk.data) > kReadSize
  /\ \E i \in Indices("sendBody"), r \in Indices("onEgressResumed") :
       /\ PausedInside(i)
       /\ SentBefore(i) = disk.data
       /\ i < r
       /\ r + 1 \in DOMAIN trace
       /\ trace[r + 1].ev = "sendEOM"

\* C13: whatever callbacks follow connectSuccess, sendEOM is called at most
\* once on the main transaction and no sendBody is called after it, also when
\* an onEgressResumed arrives after the body of a POST was sent and ended.
C13_EomAtMostOnce ==
  /\ Count("sendEOM") <= 1
  /\ \A e \in Indices("sendEOM"), b \in Indices("sendBody") : b < e

(***************************************************************************)
(* C14: the order of the calls made on connectSuccess.                      *)
(***************************************************************************)
Before(a, b) == \A i \in Indices(a), j \in Indices(b) : i < j

\* C14: on connectSuccess setFlowControl is called, with the receive window
\* for each of its three limits, before sendHeaders; sendHeaders is called
\* exactly once, before any sendBody or sendEOM; closeWhenIdle is called
\* exactly once, after sendHeaders, also when a pause has suspended the feeder
\* before the end of the body.
C14_ConnectOrder ==
  conn = "connected" =>
    /\ Count("setFlowControl") = 1
    /\ \A i \in Indices("setFlowControl") :
         trace[i].arg = <<recvWindow_, recvWindow_, recvWindow_>>
    /\ Before("setFlowControl", "sendHeaders")
    /\ Count("sendHeaders") = 1
    /\ Before("sendHeaders", "sendBody")
    /\ Before("sendHeaders", "sendEOM")
    /\ Count("closeWhenIdle") = 1
    /\ Before("sendHeaders", "closeWhenIdle")

C14_Witness ==
  /\ conn = "connected"
  /\ recvWindow_ = 1048576
  /\ egressPaused_
  /\ inputFile_.good
  /\ Count("sendBody") = 1
  /\ Count("closeWhenIdle") = 1
  /\ trace[Len(trace)].ev = "closeWhenIdle"

(***************************************************************************)
(* C16: the body chains go to the sink.                                     *)
(***************************************************************************)
\* what was written to and flushed on cout by onBody
Sink == SelectSeq(out, LAMBDA e : e.to = "cout" /\ e.text \in {"write", "flush"})

\* the onBody callbacks of the main and of the pushed transactions, in order
Bodies == SelectSeq(trace, LAMBDA e : e.dir = "in" /\ e.ev = "onBody")

\* segment i of a chain written, then a flush
Forwarded(chain) ==
  [n \in 1..(2 * Len(chain)) |->
     IF n % 2 = 1
     THEN [to |-> "cout", text |-> "write", data |-> chain[(n + 1) \div 2]]
     ELSE [to |-> "cout", text |-> "flush", data |-> <<>>]]

RECURSIVE ForwardedAll(_)
ForwardedAll(bodies) ==
  IF bodies = <<>> THEN <<>>
  ELSE ForwardedAll(SubSeq(bodies, 1, Len(bodies) - 1))
         \o Forwarded(bodies[Len(bodies)].arg)

\* C16: with forwarding enabled, each onBody writes every segment of its
\* chain once, from the head and in chain order, with a flush after each, and
\* a null chain writes nothing; over the onBody callbacks of the main and of
\* the pushed transactions the sink gets the bytes in the order of arrival,
\* as they are.
C16_ChainsForwardedInOrder ==
  loggingEnabled_ => Sink = ForwardedAll(Bodies)

C16_Witness ==
  /\ loggingEnabled_
  /\ Len(Bodies) = 2
  /\ Bodies[1].h > 0 /\ Len(Bodies[1].arg) = 3
  /\ Bodies[2].h = 0 /\ Len(Bodies[2].arg) = 2
  /\ Len(Sink) = 10

\* C18: when the upgrade to h2c was requested, sendRequest tags the request
\* for the upgrade before sendHeaders and then clears the upgrade flag, so
\* that a later sendRequest does not tag the request again; once
\* initializeSsl was called no request is tagged.
C18_UpgradeFlagCleared ==
  conn = "connected" =>
    /\ (h2c_ /\ ~SslInitialized) => request_.upgrade
    /\ request_.upgrade => ~h2c_
    /\ SslInitialized => ~request_.upgrade

(***************************************************************************)
(* C19: the list of push handlers.                                          *)
(***************************************************************************)
Notified == SelectSeq(trace, LAMBDA e : e.ev = "onPushedTransaction")

Bound == SelectSeq(trace, LAMBDA e : e.ev = "setHandler")

\* C19: every onPushedTransaction makes one new handler, gives it, and no
\* earlier one, the pushed transaction and appends it to the list; after n
\* notifications the list holds the n handlers in the order of the
\* notifications, each bound to its own transaction, whatever events,
\* detachTransaction among them, came later.
C19_HandlersAppendOnly ==
  /\ Len(pushTxnHandlers_) = Len(Notified)
  /\ Len(Bound) = Len(Notified)
  /\ \A k \in DOMAIN Notified :
       /\ Bound[k].h = k
       /\ Bound[k].arg = Notified[k].arg
       /\ pushTxnHandlers_[k].pushedTxn_ = Notified[k].arg[1]
  /\ \A j, k \in DOMAIN pushTxnHandlers_ :
       j # k => pushTxnHandlers_[j].pushedTxn_ # pushTxnHandlers_[k].pushedTxn_

C19_Witness ==
  /\ Len(pushTxnHandlers_) = 2
  /\ pushTxnHandlers_[1].pushedTxn_ = 1
  /\ pushTxnHandlers_[2].pushedTxn_ = 2
  /\ \E d \in Indices("detachTransaction"), n \in Indices("onPushedTransaction") :
       trace[d].h = 1 /\ d < n
  /\ trace[Len(trace)].ev = "onError"

(***************************************************************************)
(* C20: what a push handler keeps.                                          *)
(***************************************************************************)
\* a step, seen from handler h
KeepsPromise(h) ==
  LET before == pushTxnHandlers_[h]
      after == pushTxnHandlers_'[h]
      hdrs == HeadersOf(h)
      hdrs2 == HeadersOf(h)'
  IN /\ before.seenOnHeadersComplete_ => after.seenOnHeadersComplete_
     /\ before.seenOnHeadersComplete_ => after.promise_ = before.promise_
     /\ (Len(hdrs) >= 2 /\ Len(hdrs2) > Len(hdrs)) =>
          /\ after.response_ = hdrs2[Len(hdrs2)].arg[1]
          /\ after.promise_ = hdrs[1].arg[1]
     /\ Len(hdrs2) = Len(hdrs) => after = before

\* C20: the flag of a push handler that says it has seen its first
\* onHeadersComplete is never reset, and no event replaces the promise once
\* the first onHeadersComplete has stored it; a third or later
\* onHeadersComplete replaces the response with its message, and nothing else.
C20_PromiseKept ==
  [][\A h \in DOMAIN pushTxnHandlers_ : KeepsPromise(h)]_vars

C20_Witness ==
  \E h \in DOMAIN pushTxnHandlers_ :
    /\ Len(HeadersOf(h)) = 3
    /\ HeadersOf(h)[1].arg[1] = "m1"
    /\ HeadersOf(h)[2].arg[1] = "m1"
    /\ HeadersOf(h)[3].arg[1] = "m2"
    /\ pushTxnHandlers_[h].promise_ = "m1"
    /\ pushTxnHandlers_[h].response_ = "m2"
    /\ pushTxnHandlers_[h].seenOnHeadersComplete_

(***************************************************************************)
(* C17: the push handlers leave the driver alone.                           *)
(***************************************************************************)
\* the fields of the driver, and the handlers it holds
DriverFields(w) ==
  <<w.egressPaused_, w.txn_, w.response_, w.inputFile_, w.request_, w.h2c_,
    w.recvWindow_, w.loggingEnabled_, Len(w.pushTxnHandlers_)>>

\* from w to w2 the driver is as it was, as is every handler but h, and
\* nothing was called on the main transaction or on the session
LeavesDriver(w, w2, h) ==
  /\ DriverFields(w2) = DriverFields(w)
  /\ \A k \in DOMAIN w.pushTxnHandlers_ :
       k # h => w2.pushTxnHandlers_[k] = w.pushTxnHandlers_[k]
  /\ \A i \in (Len(w.trace) + 1)..Len(w2.trace) :
       ~(w2.trace[i].dir = "out" /\ w2.trace[i].h = 0)

\* this step delivers a callback to push handler h
PushEvent(h) ==
  /\ Len(trace') > Len(trace)
  /\ trace'[Len(trace) + 1].dir = "in"
  /\ trace'[Len(trace) + 1].h = h

\* C17: no callback of a push handler (setTransaction, onHeadersComplete,
\* onBody, onEOM, onError, detachTransaction) changes a field of the driver:
\* its paused flag, transaction, response, body source and list of handlers
\* are as before, and nothing is sent on the main transaction.
C17_PushLeavesDriver ==
  [][\A h \in DOMAIN pushTxnHandlers_ :
       /\ PushEvent(h) => LeavesDriver(This, This', h)
       /\ \A txn \in 1..MaxPush :
            LeavesDriver(This, pushSetTransaction(This, h, txn), h)]_vars

C17_Witness ==
  /\ httpMethod_ = "POST"
  /\ egressPaused_
  /\ inputFile_.good
  /\ Len(pushTxnHandlers_) = 1
  /\ trace[Len(trace)].dir = "print"
  /\ trace[Len(trace)].h = 1
  /\ Count("sendEOM") = 0

(***************************************************************************)
(* C15: logging is no branch of the control or data flow.                   *)
(***************************************************************************)
\* all of a driver but its logging flag and its output: its fields, its push
\* handlers, and the callbacks it got and the calls it made
Unlogged(w) ==
  <<w.h2c_, w.recvWindow_, w.request_, w.txn_, w.inputFile_, w.egressPaused_,
    w.response_, w.pushTxnHandlers_, w.trace>>

\* C15: a driver with logging and one without, constructed alike and given
\* the same callbacks, make the same calls on the transport (setFlowControl,
\* sendHeaders, sendBody with the same bytes, sendEOM, closeWhenIdle,
\* setHandler) in the same order, and are in the same state, push handlers
\* included; they differ in their output only, and the one without has none.
C15_LoggingIsNoBranch ==
  /\ twin.loggingEnabled_ = ~loggingEnabled_
  /\ Unlogged(twin) = Unlogged(This)
  /\ ~loggingEnabled_ => out = <<>>
  /\ ~twin.loggingEnabled_ => twin.out = <<>>

C15_Witness ==
  /\ loggingEnabled_
  /\ conn = "connected"
  /\ Count("sendBody") = 2
  /\ Count("sendEOM") = 1
  /\ response_ = "m2"
  /\ \E i \in DOMAIN out : out[i].text = "write"
  /\ twin.out = <<>>
  /\ twin.response_ = "m2"

====
